---- MODULE Spec2Model ----
(***************************************************************************)
(* Capability library (tool_library), its on-disk registry and generated   *)
(* sources, and the two failure-driven generation pipelines that use it:   *)
(* tool_gen.pipeline.run_pipeline and evals.run._run_self_improving.       *)
(* SpecAgent is one task run: Agent.run under EvalHarness.run_task, with   *)
(* the harness's recording dispatch. SpecValidate and SpecSignals apply     *)
(* _validate_tool_code and _extract_agent_observable_signals to any input. *)
(*                                                                         *)
(* Calls between modules are modelled by what the call site asks of the    *)
(* callee (its arguments and the use made of its result).                  *)
(***************************************************************************)
EXTENDS Integers, Sequences, FiniteSets, TLC

\* ------------------------------------------------------------------ bounds
MaxAttempts == 2        \* max_attempts / max_gen_attempts of one pipeline
MaxRegistry == 3        \* cap on the number of registry entries explored

\* ------------------------------------------------------------ value domains
Names == {"a", "b"}                 \* capability names a generator may choose
TaskList == <<"t1", "t2">>          \* the batch, in order
TaskIds == {TaskList[i] : i \in 1..Len(TaskList)}
Kinds == {"ok", "raises", "nofunc"} \* what executing a source text does
CHEAP == "cheap"                    \* cheap_model
SOTA == "sota"                      \* sota_model
NoFile == [name |-> "none", kind |-> "absent"]   \* no file at a path
NoPath == ""
NoName == "none"

\* A source text, by what executing it yields: "ok" defines SCHEMA with
\* function.name = name and a callable of that name; "nofunc" defines the
\* SCHEMA but no binding of that name; "raises" raises while executing (or
\* defines no usable SCHEMA).
Codes == [name : Names, kind : Kinds]

\* GENERATED_DIR / f"{name}.py", relative to LIBRARY_DIR
GenPath(name) == "generated/" \o name \o ".py"
Paths == {GenPath(n) : n \in Names}

\* ------------------------------------------------------- tool_library (disk)
\* The library on disk: registry.json (index_exists, tools) and the files
\* below LIBRARY_DIR (files: path -> source text or NoFile).
EmptyDisk ==
    [index_exists |-> FALSE, tools |-> <<>>, files |-> [p \in Paths |-> NoFile]]

_load_registry(D) == IF ~D.index_exists THEN <<>> ELSE D.tools

_save_registry(D, tools) == [D EXCEPT !.index_exists = TRUE, !.tools = tools]

Entry(name, file, task_id, generator_model, verified, verified_with) ==
    [name |-> name, file |-> file, generated_from_task |-> task_id,
     generated_by_model |-> generator_model, verified |-> verified,
     verified_with_model |-> verified_with]

register_tool_keep_old(D, name, file_path, task_id, generator_model, verified, verified_with) ==
    _save_registry(D,
        Append(_load_registry(D),
               Entry(name, file_path, task_id, generator_model, verified, verified_with)))

register_tool(D, name, file_path, task_id, generator_model, verified, verified_with) ==
    _save_registry(D,
        Append(SelectSeq(_load_registry(D), LAMBDA t : t.name # name),
               Entry(name, file_path, task_id, generator_model, verified, verified_with)))

RECURSIVE MarkFirst(_, _, _)
MarkFirst(tools, name, verified_with_model) ==
    IF tools = <<>> THEN <<>>
    ELSE IF Head(tools).name = name
         THEN <<[Head(tools) EXCEPT !.verified = TRUE,
                                    !.verified_with_model = verified_with_model]>>
              \o Tail(tools)
         ELSE <<Head(tools)>> \o MarkFirst(Tail(tools), name, verified_with_model)

mark_verified(D, name, verified_with_model) ==
    _save_registry(D, MarkFirst(_load_registry(D), name, verified_with_model))

remove_tool_pop_last(D, name) ==
    LET tools == _load_registry(D)
        hit == {i \in 1..Len(tools) : tools[i].name = name}
        kept == IF hit # {} THEN SelectSeq(tools, LAMBDA t : t.name # name)
                ELSE SubSeq(tools, 1, Len(tools) - 1)
        saved == _save_registry(D, kept)
    IN [saved EXCEPT !.files[GenPath(name)] = NoFile]

remove_tool_keep_entry(D, name) ==
    LET saved == _save_registry(D, _load_registry(D))
    IN [saved EXCEPT !.files[GenPath(name)] = NoFile]

remove_tool(D, name) ==
    LET saved == _save_registry(D, SelectSeq(_load_registry(D), LAMBDA t : t.name # name))
    IN [saved EXCEPT !.files[GenPath(name)] = NoFile]

LoadEntry_ignores_verified(D, entry, acc) ==
    IF D.files[entry.file] = NoFile THEN acc
    ELSE LET code == D.files[entry.file] IN
         IF code.kind = "raises" THEN acc
         ELSE IF code.kind = "nofunc"
              THEN [acc EXCEPT !.schemas = Append(@, code.name)]
              ELSE [schemas |-> Append(acc.schemas, code.name),
                    handlers |-> (code.name :> entry.file) @@ acc.handlers]

\* One iteration of the loop of load_tools over a registry entry, applied to
\* the accumulator acc = [schemas, handlers]; handlers maps name -> the path
\* of the module the callable was taken from.
LoadEntry(D, entry, acc) ==
    IF ~entry.verified THEN acc
    ELSE IF D.files[entry.file] = NoFile THEN acc
    ELSE LET code == D.files[entry.file] IN
         IF code.kind = "raises" THEN acc
         ELSE IF code.kind = "nofunc"
              THEN [acc EXCEPT !.schemas = Append(@, code.name)]
              ELSE [schemas |-> Append(acc.schemas, code.name),
                    handlers |-> (code.name :> entry.file) @@ acc.handlers]

RECURSIVE LoadFrom(_, _, _)
LoadFrom(D, tools, acc) ==
    IF tools = <<>> THEN acc
    ELSE LoadFrom(D, Tail(tools), LoadEntry(D, Head(tools), acc))

load_tools(D) ==
    LoadFrom(D, _load_registry(D), [schemas |-> <<>>, handlers |-> <<>>])

\* ------------------------------------------------------ tool_gen.pipeline
\* What executing a candidate source text leaves behind, as far as
\* _validate_tool_code looks: how exec ends (an Exception, or a BaseException
\* such as SystemExit), whether SCHEMA is bound and to a dict, whether its
\* "function" item is a dict, the "name" item of that, what the namespace
\* binds to that name, and whether USAGE_EXAMPLE is bound.
Absent == "<absent>"
Sources ==
    [exec : {"fine", "Exception", "SystemExit"},
     schema : {"absent", "dict", "other"},
     function : {"absent", "dict", "other"},
     fname : {Absent, ""} \cup Names,
     binding : {"absent", "callable", "value"},
     usage_example : BOOLEAN]

\* The source text a generator output [name, kind] stands for.
SourceOf(code) ==
    [exec |-> IF code.kind = "raises" THEN "Exception" ELSE "fine",
     schema |-> IF code.kind = "crashes" THEN "other" ELSE "dict",
     function |-> "dict",
     fname |-> code.name,
     binding |-> IF code.kind = "nofunc" THEN "absent" ELSE "callable",
     usage_example |-> TRUE]

Invalid(reason) == [raised |-> FALSE, valid |-> FALSE, result |-> reason]
Valid(func_name) == [raised |-> FALSE, valid |-> TRUE, result |-> func_name]
Propagates(e) == [raised |-> TRUE, valid |-> FALSE, result |-> e]

\* _validate_tool_code: (valid, func_name or reason) for a source text, or
\* the exception that leaves it.
_validate_tool_code_no_binding_check(src) ==
    IF src.exec = "Exception" THEN Invalid("Code execution error")
    ELSE IF src.exec = "SystemExit" THEN Propagates("SystemExit")
    ELSE IF src.schema = "absent" THEN Invalid("Missing SCHEMA definition")
    ELSE IF src.schema = "other" THEN Propagates("AttributeError")
    ELSE IF src.function = "other" THEN Propagates("AttributeError")
    ELSE IF src.function = "absent" \/ src.fname \in {Absent, ""}
         THEN Invalid("SCHEMA missing function.name")
    ELSE Valid(src.fname)

_validate_tool_code(src) ==
    IF src.exec = "Exception" THEN Invalid("Code execution error")
    ELSE IF src.exec = "SystemExit" THEN Propagates("SystemExit")
    ELSE IF src.schema = "absent" THEN Invalid("Missing SCHEMA definition")
    ELSE IF src.schema = "other" THEN Propagates("AttributeError")
    ELSE IF src.function = "other" THEN Propagates("AttributeError")
    ELSE IF src.function = "absent" \/ src.fname \in {Absent, ""}
         THEN Invalid("SCHEMA missing function.name")
    ELSE IF src.binding = "absent" THEN Invalid("Function not defined")
    ELSE IF src.binding = "value" THEN Invalid("not callable")
    ELSE Valid(src.fname)

\* What generate_tool may return: a source text of one of the kinds above,
\* or one whose SCHEMA is not a dict ("crashes").
GenCodes == Codes \cup {[name |-> "a", kind |-> "crashes"]}

\* ------------------------------------------------------------------- state
Msgs == {"m1", "m2"}          \* verification messages
Trajs == {"tr1", "tr2"}       \* trajectories of a run
Modes == {"run_pipeline", "self_improving"}

Errors == {"", "boom"}        \* error of a run: none, or the agent's exception
TaskResult(task_id, passed, verify_message, trajectory, error) ==
    [task_id |-> task_id, passed |-> passed, verify_message |-> verify_message,
     trajectory |-> trajectory, error |-> error, extra_cost |-> 0]
NoResult == TaskResult(NoName, FALSE, "", "", "")
\* The outcomes of a task run that are explored: what verification said, the
\* trajectory recorded and the agent's exception, if any.
RunOutcomes ==
    { [passed |-> TRUE,  verify_message |-> "m1", trajectory |-> "tr1", error |-> ""],
      [passed |-> TRUE,  verify_message |-> "m2", trajectory |-> "tr2", error |-> "boom"],
      [passed |-> FALSE, verify_message |-> "m1", trajectory |-> "tr1", error |-> ""],
      [passed |-> FALSE, verify_message |-> "m2", trajectory |-> "tr1", error |-> ""],
      [passed |-> FALSE, verify_message |-> "m1", trajectory |-> "tr2", error |-> "boom"] }
NoTools == [run |-> "none", schemas |-> <<>>, handlers |-> <<>>, used |-> <<>>]
NoRetryInfo == [tool_name |-> NoName, verify_message |-> ""]
NoCode == [name |-> NoName, kind |-> "raises"]
NoCall == [op |-> "none", name |-> NoName, file |-> NoPath, pre |-> EmptyDisk]

\* The shell outputs with error markers found in the run's trajectory: the
\* text observable_signals (below) gives for it, kept as one token here.
_extract_agent_observable_signals(task_result) ==
    "signals(" \o task_result.trajectory \o ")"

_generation_feedback_leaks(task_result, allow) == task_result.verify_message

\* The failure summary handed to the generator: the raw verification message
\* only if allowed, else the agent's runtime error and observable signals.
_generation_feedback(task_result, allow) ==
    IF allow THEN task_result.verify_message
    ELSE "Hidden verifier result: FAIL."
         \o (IF task_result.error # "" THEN "Agent runtime error: " \o task_result.error ELSE "")
         \o "Agent-observable signals:" \o _extract_agent_observable_signals(task_result)

VARIABLES
    disk,            \* registry.json and the files under LIBRARY_DIR
    call,            \* the last tool_library call made directly, with the disk before it
    mode,            \* which driver runs: run_pipeline (tool_gen.run.main),
                     \* _run_self_improving, or direct library calls ("api")
    pc,              \* position of the driver within the current task
    taskIdx,         \* index into the batch of the task being processed
    attempt,         \* loop variable of the generation loop
    initial_result,  \* initial_result / result of the current task
    tool_name,       \* tool_name of the current attempt
    tool_code,       \* tool_code of the current attempt
    retry_info,      \* retry_info handed to the next generate_tool call
    retry_result,    \* retry_result of the current attempt
    task_gen_cost,   \* generation cost accumulated for the current task
    results,         \* what the driver has reported per finished task
    meta,            \* meta of _run_self_improving (tools_generated, tool_sources)
    genCalls,        \* history: generate_tool calls made for the current task
    firstRun,        \* history: outcome of each task's initial run
    unproven,        \* history: names registered by the current task's pipeline
                     \* with no passing retry since their registration
    proven,          \* history: names whose registered source passed a retry
    allow_verifier_feedback,  \* the drivers' allow_verifier_feedback parameter
    gen_feedback,    \* verify_message argument of the last generate_tool call
    gen_retry_info,  \* retry_info argument of the last generate_tool call
    run_tools,       \* library toolset handed to the last task run, and which run
    startDisk,       \* history: the library when the current task's pipeline started
    valCalls         \* history: _validate_tool_code calls made for the current task

\* ------------------------------ one task run: Agent.run under EvalHarness.run_task
max_iterations == 2       \* Agent(max_iterations=...), the spec's max_turns
MaxCalls == 2             \* invocation requests in one response

None == "<None>"          \* Python's None where a string may stand
SYSTEM_PROMPT == "system"
TaskPrompt == "task"
NoId == <<0, 0>>
INCOMPLETE == "Reached maximum iterations without completing the task."
NO_RESPONSE == "(no response)"

BuiltinNames == {"read_file", "write_file", "run_shell"}

\* What the model may ask for. args "ok": keyword arguments the callable
\* accepts and it succeeds; "timeout": accepted, a command that runs longer
\* than its timeout; "fails": accepted, the callable fails inside; "bad":
\* keyword arguments the callable's signature does not accept.
Requests ==
    { [name |-> "read_file", args |-> "ok"],
      [name |-> "run_shell", args |-> "timeout"],
      [name |-> "read_file", args |-> "bad"],
      [name |-> "a", args |-> "bad"] }

RequestLists == UNION {[1..n -> Requests] : n \in 1..MaxCalls}

Contents == {None, "", "text"}
Usages == {[input_tokens |-> 1, output_tokens |-> 1],
           [input_tokens |-> 2, output_tokens |-> 3]}
ToolTurnUsage == [input_tokens |-> 2, output_tokens |-> 1]

\* extra_tools of EvalHarness: not given, or the library's handlers by name.
\* _validate_tool_code accepts any non-empty function.name, so a library may
\* hold a capability under the name of a built-in.
ExtraTools ==
    { [given |-> FALSE, handlers |-> {}],
      [given |-> TRUE, handlers |-> {"a"}],
      [given |-> TRUE, handlers |-> {"a", "read_file"}] }

ToolCall(id, name, args) == [id |-> id, name |-> name, args |-> args]

AgentResponse(content, tool_calls, usage) ==
    [content |-> content, tool_calls |-> tool_calls,
     input_tokens |-> usage.input_tokens, output_tokens |-> usage.output_tokens]

NoResponse == AgentResponse(None, <<>>, [input_tokens |-> 0, output_tokens |-> 0])

AgentResult(content, input_tokens, output_tokens) ==
    [content |-> content, input_tokens |-> input_tokens, output_tokens |-> output_tokens]

NoAgentResult == AgentResult(None, 0, 0)

Message(role, content, tool_calls, tool_call_id) ==
    [role |-> role, content |-> content, tool_calls |-> tool_calls,
     tool_call_id |-> tool_call_id]

\* raw_message built by OpenAIClient.chat
raw_message(resp) == Message("assistant", resp.content, resp.tool_calls, NoId)

ToolCallRecord(name, args, result) == [name |-> name, args |-> args, result |-> result]

NoHarnessResult ==
    [done |-> FALSE, passed |-> FALSE, verify_message |-> "", final_response |-> "",
     input_tokens |-> 0, output_tokens |-> 0, error |-> None, trajectory |-> <<>>]

Returned(r) == [raised |-> FALSE, result |-> r]
Raised(e) == [raised |-> TRUE, result |-> e]

\* evals.command_runner: what running a command gives, by its behaviour
CommandResult(returncode, timed_out, error) ==
    [returncode |-> returncode, timed_out |-> timed_out, error |-> error]

Behaviours == {"ok", "exit1", "timeout", "oserror"}

HostCommandRunner_run(behaviour) ==
    CASE behaviour = "timeout" -> CommandResult(124, TRUE, "")
      [] behaviour = "oserror" -> CommandResult(1, FALSE, "e")
      [] behaviour = "exit1" -> CommandResult(1, FALSE, "")
      [] OTHER -> CommandResult(0, FALSE, "")

\* run_shell of _build_toolbox, on the result of command_runner.run
run_shell_ignores_timeout(result) ==
    IF result.error # "" THEN "Error: " \o result.error
    ELSE IF result.returncode # 0 THEN "stdout\nExit code: 1"
    ELSE "stdout"

run_shell(result) ==
    IF result.timed_out THEN "Error: command timed out after 30 seconds"
    ELSE IF result.error # "" THEN "Error: " \o result.error
    ELSE IF result.returncode # 0 THEN "stdout\nExit code: 1"
    ELSE "stdout"

VerifyResult(passed, message) == [passed |-> passed, message |-> message]

\* TestsPasses.check, on the result of the command runner
TestsPasses_check(result) ==
    IF result.timed_out THEN VerifyResult(FALSE, "Test command timed out")
    ELSE IF result.error # "" THEN VerifyResult(FALSE, "Test command error: " \o result.error)
    ELSE IF result.returncode = 0 THEN VerifyResult(TRUE, "Tests passed")
    ELSE VerifyResult(FALSE, "Tests failed (exit 1)")

\* read_file / write_file catch what goes wrong inside them; run_shell
\* reports what the command runner returned
Builtin(name, args) ==
    IF name = "run_shell" THEN run_shell(HostCommandRunner_run(args))
    ELSE IF args = "ok" THEN "contents" ELSE "Error: e"

\* dispatch of _build_toolbox: handlers[name](**args) is not guarded, so
\* arguments the callable does not accept raise TypeError out of dispatch.
base_dispatch_unknown_raises(name, args) ==
    IF name \notin BuiltinNames THEN Raised("KeyError")
    ELSE IF args = "bad" THEN Raised("TypeError")
    ELSE Returned(Builtin(name, args))

base_dispatch(name, args) ==
    IF name \notin BuiltinNames THEN Returned("Unknown tool: " \o name)
    ELSE IF args = "bad" THEN Raised("TypeError")
    ELSE Returned(Builtin(name, args))

merged_dispatch(extra_handlers, name, args) ==
    IF name \in extra_handlers
    THEN IF args = "ok" THEN Returned("str(result)") ELSE Returned("Error: e")
    ELSE base_dispatch(name, args)

dispatch_fn(extra, name, args) ==
    IF extra.given THEN merged_dispatch(extra.handlers, name, args)
    ELSE base_dispatch(name, args)

\* response.content or "(no response)"
FinalContent_raw(content) == content

FinalContent(content) ==
    IF content = None \/ content = "" THEN NO_RESPONSE ELSE content

VARIABLES
    ag_pc,           \* Agent.run: about to chat, dispatching, returned, raised
    iteration,       \* loop variable of Agent.run
    messages,        \* the conversation
    total_input,     \* total_input of Agent.run
    total_output,    \* total_output of Agent.run
    response,        \* the last response of client.chat
    pending,         \* tool calls of the response not yet dispatched
    trajectory,      \* trajectory of run_task, filled by recording_dispatch
    agent_result,    \* what Agent.run returned
    harness_result,  \* the TaskResult of run_task
    extra_tools,     \* extra_tools of the harness
    chatCalls,       \* history: calls of client.chat made by this run
    exception,       \* the exception raised in this run, None if none
    rt_pc,           \* run_task: running, returned, raised, or its result
                     \* handed to the driver
    workspace,       \* the run's temporary directory: created or removed
    usage_log        \* history: the usage of every response received

VARIABLES
    val_src,         \* the source text handed to _validate_tool_code
    val_out          \* what the call returned or raised, once made

valVars == <<val_src, val_out>>

NoOutcome == [raised |-> FALSE, valid |-> FALSE, result |-> "<not called>"]

\* ------------------------------------ _extract_agent_observable_signals
\* A text is modelled by its pieces in order, each with its length in
\* characters and where it comes from: idx is the trajectory position of the
\* invocation a piece is copied from (0 for text of the function itself),
\* part says which of its fields.
Seg(idx, part, len) == [idx |-> idx, part |-> part, len |-> len]
Text(n) == Seg(0, "text", n)

RECURSIVE StrLen(_)
StrLen(str) == IF str = <<>> THEN 0 ELSE Head(str).len + StrLen(Tail(str))

\* str[:n]
RECURSIVE Take(_, _)
Take(str, n) ==
    IF str = <<>> \/ n <= 0 THEN <<>>
    ELSE IF Head(str).len <= n THEN <<Head(str)>> \o Take(Tail(str), n - Head(str).len)
    ELSE <<[Head(str) EXCEPT !.len = n]>>

Min(a, b) == IF a < b THEN a ELSE b

MaxTraj == 5              \* invocations in a trajectory
max_chars == 3000         \* max_chars of _extract_agent_observable_signals
OUTPUT_CHARS == 800       \* output[:800]
LAST_LINES == 4           \* lines[-4:]

\* The invocations a trajectory is made of: name, length of the command
\* argument, and the result by its length and whether it contains one of
\* the tokens Traceback, AssertionError, FAILED, Error:, Exit code:
SignalCalls ==
    { [name |-> "run_shell", args |-> 10,  result |-> [marker |-> TRUE,  len |-> 100]],
      [name |-> "run_shell", args |-> 10,  result |-> [marker |-> TRUE,  len |-> 900]],
      [name |-> "run_shell", args |-> 400, result |-> [marker |-> TRUE,  len |-> 900]],
      [name |-> "run_shell", args |-> 10,  result |-> [marker |-> FALSE, len |-> 100]],
      [name |-> "read_file", args |-> 10,  result |-> [marker |-> TRUE,  len |-> 900]] }

Trajectories == UNION {[1..n -> SignalCalls] : n \in 0..MaxTraj}

NO_SIGNALS == <<Seg(0, "No explicit self-test failure logs were observed in run_shell outputs.", 70)>>

IsSignal_any_tool(tc) == tc.result.marker

\* the test of the loop: a run_shell invocation whose output has a marker
IsSignal(tc) ==
    tc.name = "run_shell" /\ tc.result.marker

\* f"$ {cmd}\n{output[:800]}" for the invocation at position i
SignalLine(traj, i) ==
    <<Text(2), Seg(i, "command", traj[i].args), Text(1),
      Seg(i, "output", Min(traj[i].result.len, OUTPUT_CHARS))>>

\* lines, as the positions of the invocations they were built from
SignalIdx(traj) ==
    SelectSeq([i \in 1..Len(traj) |-> i], LAMBDA i : IsSignal(traj[i]))

\* lines[-4:]
LastLines(lines) ==
    IF Len(lines) <= LAST_LINES THEN lines
    ELSE SubSeq(lines, Len(lines) - LAST_LINES + 1, Len(lines))

\* "\n\n".join(...)
RECURSIVE JoinLines(_, _)
JoinLines(traj, idxs) ==
    IF idxs = <<>> THEN <<>>
    ELSE IF Len(idxs) = 1 THEN SignalLine(traj, idxs[1])
    ELSE SignalLine(traj, Head(idxs)) \o <<Text(2)>> \o JoinLines(traj, Tail(idxs))

observable_signals(traj, limit) ==
    LET lines == SignalIdx(traj) IN
    IF lines = <<>> THEN NO_SIGNALS
    ELSE Take(JoinLines(traj, LastLines(lines)), limit)

NotExtracted == <<Seg(0, "<not called>", 0)>>

VARIABLES
    sig_traj,        \* the trajectory handed to _extract_agent_observable_signals
    sig_out          \* what the call returned, once made

sigVars == <<sig_traj, sig_out>>

agentVars == <<ag_pc, iteration, messages, total_input, total_output, response,
               pending, trajectory, agent_result, harness_result, extra_tools,
               chatCalls, exception, rt_pc, workspace, usage_log>>

vars == <<disk, call, mode, pc, taskIdx, attempt, initial_result, tool_name,
          tool_code, retry_info, retry_result, task_gen_cost, results, meta,
          genCalls, firstRun, unproven, proven, allow_verifier_feedback,
          gen_feedback, gen_retry_info,
                   run_tools, startDisk, valCalls, ag_pc, iteration,
          messages, total_input, total_output, response, pending, trajectory,
          agent_result, harness_result, extra_tools, chatCalls, exception,
          rt_pc, workspace, usage_log, val_src, val_out, sig_traj, sig_out>>

pipeVars == <<pc, taskIdx, attempt, initial_result, tool_name, tool_code,
              retry_info, retry_result, task_gen_cost, results, meta,
              genCalls, firstRun, unproven, proven, allow_verifier_feedback,
              gen_feedback, gen_retry_info,
                   run_tools, startDisk, valCalls>>

Task == TaskList[taskIdx]

InitCommon ==
    /\ disk = EmptyDisk
    /\ call = NoCall
    /\ pc = "initial"
    /\ taskIdx = 1
    /\ attempt = 0
    /\ initial_result = NoResult
    /\ tool_name = NoName
    /\ tool_code = NoCode
    /\ retry_info = NoRetryInfo
    /\ retry_result = NoResult
    /\ task_gen_cost = 0
    /\ results = <<>>
    /\ meta = [tools_generated |-> [t \in TaskIds |-> NoName],
               tool_sources |-> [n \in Names |-> NoName],
               cross_task_reuse |-> <<>>]
    /\ genCalls = 0
    /\ firstRun = [t \in TaskIds |-> NoResult]
    /\ unproven = {}
    /\ proven = {}
    /\ gen_feedback = ""
    /\ gen_retry_info = NoRetryInfo
    /\ run_tools = NoTools
    /\ startDisk = EmptyDisk
    /\ valCalls = 0

\* Agent.run lines 130-136 and run_task lines 77-78
InitRun ==
    /\ ag_pc = "chat"
    /\ iteration = 0
    /\ messages = <<Message("system", SYSTEM_PROMPT, <<>>, NoId),
                    Message("user", TaskPrompt, <<>>, NoId)>>
    /\ total_input = 0
    /\ total_output = 0
    /\ response = NoResponse
    /\ pending = <<>>
    /\ trajectory = <<>>
    /\ agent_result = NoAgentResult
    /\ harness_result = NoHarnessResult
    /\ chatCalls = 0
    /\ exception = None
    /\ rt_pc = "running"
    /\ workspace = "created"
    /\ usage_log = <<>>

\* no stand-alone call of _validate_tool_code is being looked at
InitNoValidation ==
    /\ val_src = SourceOf(NoCode)
    /\ val_out = NoOutcome

\* no stand-alone call of _extract_agent_observable_signals is being looked at
InitNoSignals ==
    /\ sig_traj = <<>>
    /\ sig_out = NotExtracted

\* The drivers start on an empty library (_run_self_improving clears it).
Init ==
    /\ mode \in Modes /\ allow_verifier_feedback \in BOOLEAN /\ InitCommon
    /\ InitRun /\ extra_tools = [given |-> FALSE, handlers |-> {}]
    /\ InitNoValidation /\ InitNoSignals

InitLib ==
    /\ mode = "api" /\ allow_verifier_feedback = FALSE /\ InitCommon
    /\ InitRun /\ extra_tools = [given |-> FALSE, handlers |-> {}]
    /\ InitNoValidation /\ InitNoSignals

\* ------------------------------------------- the drivers, one task at a time
Report_counts_from_zero(status, result, attempts, name) ==
    [task_id |-> Task, status |-> status, result |-> result,
     attempts |-> IF attempts > 0 THEN attempts - 1 ELSE 0, tool_name |-> name]

Report(status, result, attempts, name) ==
    [task_id |-> Task, status |-> status, result |-> result,
     attempts |-> attempts, tool_name |-> name]

\* The task loop moves on to the next task (or the batch is finished).
NextTask ==
    /\ taskIdx' = taskIdx + 1
    /\ pc' = IF taskIdx + 1 > Len(TaskList) THEN "done" ELSE "initial"

FinishFailed_reports_retry(cost) ==
    /\ results' = Append(results,
          Report("generation_failed",
                 IF mode = "self_improving"
                 THEN [retry_result EXCEPT !.extra_cost = cost]
                 ELSE retry_result,
                 MaxAttempts, NoName))
    /\ taskIdx' = taskIdx + 1
    /\ pc' = IF taskIdx + 1 > Len(TaskList) THEN "done" ELSE "initial"

\* The generation loop ran out of attempts: run_pipeline returns
\* generation_failed with initial_result; _run_self_improving appends the
\* initial result with the generation cost charged to it.
FinishFailed(cost) ==
    /\ results' = Append(results,
          Report("generation_failed",
                 IF mode = "self_improving"
                 THEN [initial_result EXCEPT !.extra_cost = cost]
                 ELSE initial_result,
                 MaxAttempts, NoName))
    /\ NextTask

\* `continue` / falling off the end of one iteration of the generation loop.
Continue(cost) ==
    IF attempt < MaxAttempts
    THEN /\ attempt' = attempt + 1
         /\ pc' = "generate"
         /\ UNCHANGED <<taskIdx, results>>
    ELSE /\ attempt' = attempt
         /\ FinishFailed(cost)

\* _load_current_tools: the toolset of a run of _run_self_improving and the
\* names counted as library tools (none when no schema was loaded)
lib_names(L) == IF L.schemas = <<>> THEN {} ELSE DOMAIN L.handlers

\* result.tools_used: the library names in the trajectory, one per
\* invocation; the runs explored invoke one library tool up to twice
UsedLists(names) ==
    {<<>>} \cup {<<n>> : n \in names} \cup {<<n, n>> : n \in names}

\* the loop over result.tools_used that fills meta["cross_task_reuse"]
RECURSIVE RecordReuse(_, _, _, _, _)
RecordReuse(reuse, tool_sources, used, task_id, passed) ==
    IF used = <<>> THEN reuse
    ELSE LET tn == Head(used)
             src == tool_sources[tn]
         IN RecordReuse(
               IF src # NoName /\ src # task_id
               THEN Append(reuse, [task_id |-> task_id, tool_name |-> tn,
                                   source_task |-> src, passed |-> passed])
               ELSE reuse,
               tool_sources, Tail(used), task_id, passed)

InitialRun_ignores_pass ==
    /\ mode \in Modes
    /\ pc = "initial"
    /\ \E o \in RunOutcomes :
         LET res == TaskResult(Task, o.passed, o.verify_message, o.trajectory, o.error) IN
         /\ initial_result' = res
         /\ firstRun' = [firstRun EXCEPT ![Task] = res]
         /\ IF FALSE
            THEN /\ results' = Append(results, Report("already_passing", res, 0, NoName))
                 /\ NextTask
                 /\ attempt' = 0
            ELSE /\ pc' = "generate"
                 /\ attempt' = 1
                 /\ UNCHANGED <<taskIdx, results>>
         /\ IF mode = "self_improving"
            THEN \E used \in UsedLists(lib_names(load_tools(disk))) :
                   /\ run_tools' = [run |-> "initial", schemas |-> load_tools(disk).schemas,
                                    handlers |-> load_tools(disk).handlers, used |-> used]
                   /\ meta' = [meta EXCEPT !.cross_task_reuse =
                                  RecordReuse(@, meta.tool_sources, used, Task, o.passed)]
            ELSE /\ run_tools' = [NoTools EXCEPT !.run = "initial"]
                 /\ UNCHANGED meta
    /\ retry_info' = NoRetryInfo
    /\ task_gen_cost' = 0
    /\ genCalls' = 0
    /\ unproven' = {}
    /\ startDisk' = disk
    /\ valCalls' = 0
    /\ gen_feedback' = ""
    /\ gen_retry_info' = NoRetryInfo
    /\ UNCHANGED <<agentVars, valVars, sigVars, disk, call, mode, tool_name, tool_code, retry_result, proven,
                   allow_verifier_feedback>>

\* harness.run_task(task) for the initial run, and the branch on its outcome.
InitialRun ==
    /\ mode \in Modes
    /\ pc = "initial"
    /\ \E o \in RunOutcomes :
         LET res == TaskResult(Task, o.passed, o.verify_message, o.trajectory, o.error) IN
         /\ initial_result' = res
         /\ firstRun' = [firstRun EXCEPT ![Task] = res]
         /\ IF o.passed
            THEN /\ results' = Append(results, Report("already_passing", res, 0, NoName))
                 /\ NextTask
                 /\ attempt' = 0
            ELSE /\ pc' = "generate"
                 /\ attempt' = 1
                 /\ UNCHANGED <<taskIdx, results>>
         /\ IF mode = "self_improving"
            THEN \E used \in UsedLists(lib_names(load_tools(disk))) :
                   /\ run_tools' = [run |-> "initial", schemas |-> load_tools(disk).schemas,
                                    handlers |-> load_tools(disk).handlers, used |-> used]
                   /\ meta' = [meta EXCEPT !.cross_task_reuse =
                                  RecordReuse(@, meta.tool_sources, used, Task, o.passed)]
            ELSE /\ run_tools' = [NoTools EXCEPT !.run = "initial"]
                 /\ UNCHANGED meta
    /\ retry_info' = NoRetryInfo
    /\ task_gen_cost' = 0
    /\ genCalls' = 0
    /\ unproven' = {}
    /\ startDisk' = disk
    /\ valCalls' = 0
    /\ gen_feedback' = ""
    /\ gen_retry_info' = NoRetryInfo
    /\ UNCHANGED <<agentVars, valVars, sigVars, disk, call, mode, tool_name, tool_code, retry_result, proven,
                   allow_verifier_feedback>>

\* generate_tool raises. _run_self_improving catches it and continues with
\* the next attempt; run_pipeline lets it propagate out of the task loop.
GenerateError ==
    /\ mode \in Modes
    /\ pc = "generate"
    /\ genCalls' = genCalls + 1
    /\ IF mode = "run_pipeline"
       THEN /\ pc' = "aborted"
            /\ UNCHANGED <<taskIdx, attempt, results>>
       ELSE Continue(task_gen_cost)
    /\ gen_feedback' = _generation_feedback(initial_result, allow_verifier_feedback)
    /\ gen_retry_info' = retry_info
    /\ UNCHANGED <<agentVars, valVars, sigVars, disk, call, mode, initial_result, tool_name, tool_code, retry_info,
                   retry_result, task_gen_cost, meta, firstRun, unproven, proven,
                   allow_verifier_feedback, run_tools, startDisk, valCalls>>

GenerateCode_writes_before_validation ==
    /\ mode \in Modes
    /\ pc = "generate"
    /\ genCalls' = genCalls + 1
    /\ task_gen_cost' = task_gen_cost + 1
    /\ gen_feedback' = _generation_feedback(initial_result, allow_verifier_feedback)
    /\ gen_retry_info' = retry_info
    /\ valCalls' = valCalls + 1
    /\ \E code \in GenCodes :
         LET v == _validate_tool_code(SourceOf(code)) IN
         /\ tool_code' = code
         /\ disk' = [disk EXCEPT !.files[GenPath(code.name)] = code]
         /\ IF v.raised
            THEN /\ pc' = "aborted"
                 /\ UNCHANGED <<tool_name, taskIdx, attempt, results>>
            ELSE IF ~v.valid
            THEN /\ Continue(task_gen_cost + 1)
                 /\ UNCHANGED tool_name
            ELSE /\ tool_name' = v.result
                 /\ pc' = "write"
                 /\ UNCHANGED <<taskIdx, attempt, results>>
    /\ UNCHANGED <<agentVars, valVars, sigVars, call, mode, initial_result, retry_info, retry_result, meta,
                   firstRun, unproven, proven, allow_verifier_feedback, run_tools,
                   startDisk>>

\* generate_tool returns a source text, which _validate_tool_code judges; an
\* exception leaving _validate_tool_code is caught by neither driver.
GenerateCode ==
    /\ mode \in Modes
    /\ pc = "generate"
    /\ genCalls' = genCalls + 1
    /\ task_gen_cost' = task_gen_cost + 1
    /\ gen_feedback' = _generation_feedback(initial_result, allow_verifier_feedback)
    /\ gen_retry_info' = retry_info
    /\ valCalls' = valCalls + 1
    /\ \E code \in GenCodes :
         LET v == _validate_tool_code(SourceOf(code)) IN
         /\ tool_code' = code
         /\ IF v.raised
            THEN /\ pc' = "aborted"
                 /\ UNCHANGED <<tool_name, taskIdx, attempt, results>>
            ELSE IF ~v.valid
            THEN /\ Continue(task_gen_cost + 1)
                 /\ UNCHANGED tool_name
            ELSE /\ tool_name' = v.result
                 /\ pc' = "write"
                 /\ UNCHANGED <<taskIdx, attempt, results>>
    /\ UNCHANGED <<agentVars, valVars, sigVars, disk, call, mode, initial_result, retry_info, retry_result, meta,
                   firstRun, unproven, proven, allow_verifier_feedback, run_tools,
                   startDisk>>

\* tool_path.write_text(tool_code)
WriteSource ==
    /\ mode \in Modes
    /\ pc = "write"
    /\ disk' = [disk EXCEPT !.files[GenPath(tool_name)] = tool_code]
    /\ pc' = "register"
    /\ UNCHANGED <<agentVars, valVars, sigVars, call, mode, taskIdx, attempt, initial_result, tool_name, tool_code,
                   retry_info, retry_result, task_gen_cost, results, meta, genCalls,
                   firstRun, unproven, proven, allow_verifier_feedback, gen_feedback, gen_retry_info,
                   run_tools,
                   startDisk, valCalls>>

Register_unverified ==
    /\ mode \in Modes
    /\ pc = "register"
    /\ Len(disk.tools) < MaxRegistry
    /\ disk' = register_tool(disk, tool_name, GenPath(tool_name), Task, SOTA, FALSE, "")
    /\ pc' = "retry"
    /\ unproven' = unproven \cup {tool_name}
    /\ proven' = proven \ {tool_name}
    /\ UNCHANGED <<agentVars, valVars, sigVars, call, mode, taskIdx, attempt, initial_result, tool_name, tool_code,
                   retry_info, retry_result, task_gen_cost, results, meta, genCalls,
                   firstRun, allow_verifier_feedback, gen_feedback, gen_retry_info,
                   run_tools,
                   startDisk, valCalls>>

\* tool_library.register_tool(..., verified=True, verified_with=cheap_model)
Register ==
    /\ mode \in Modes
    /\ pc = "register"
    /\ Len(disk.tools) < MaxRegistry
    /\ disk' = register_tool(disk, tool_name, GenPath(tool_name), Task, SOTA, TRUE, CHEAP)
    /\ pc' = "retry"
    /\ unproven' = unproven \cup {tool_name}
    /\ proven' = proven \ {tool_name}
    /\ UNCHANGED <<agentVars, valVars, sigVars, call, mode, taskIdx, attempt, initial_result, tool_name, tool_code,
                   retry_info, retry_result, task_gen_cost, results, meta, genCalls,
                   firstRun, allow_verifier_feedback, gen_feedback, gen_retry_info,
                   run_tools,
                   startDisk, valCalls>>

\* The retry run with the library loaded, and the branch on its outcome.
RetryRun ==
    /\ mode \in Modes
    /\ pc = "retry"
    /\ run_tools' = [run |-> "retry", schemas |-> load_tools(disk).schemas,
                     handlers |-> load_tools(disk).handlers, used |-> <<>>]
    /\ \E o \in RunOutcomes :
         LET res == [TaskResult(Task, o.passed, o.verify_message, o.trajectory, o.error) EXCEPT
                        !.extra_cost = IF mode = "self_improving" THEN task_gen_cost ELSE 0]
         IN
         /\ retry_result' = res
         /\ IF o.passed
            THEN /\ results' = Append(results, Report("tool_generated", res, attempt, tool_name))
                 /\ NextTask
                 /\ meta' = IF mode = "self_improving"
                            THEN [tools_generated |-> [meta.tools_generated EXCEPT ![Task] = tool_name],
                                  tool_sources |-> [meta.tool_sources EXCEPT ![tool_name] = Task],
                                  cross_task_reuse |-> meta.cross_task_reuse]
                            ELSE meta
                 /\ proven' = proven \cup {tool_name}
                 /\ unproven' = unproven \ {tool_name}
                 /\ UNCHANGED retry_info
            ELSE /\ retry_info' = [tool_name |-> tool_name,
                                   verify_message |->
                                       _generation_feedback(res, allow_verifier_feedback)]
                 /\ pc' = "evict"
                 /\ UNCHANGED <<taskIdx, results, meta, proven, unproven>>
    /\ UNCHANGED <<agentVars, valVars, sigVars, disk, call, mode, attempt, initial_result, tool_name, tool_code,
                   task_gen_cost, genCalls, firstRun, allow_verifier_feedback,
                   gen_feedback, gen_retry_info, startDisk, valCalls>>

Evict_forgets_retry_info ==
    /\ mode \in Modes
    /\ pc = "evict"
    /\ disk' = remove_tool(disk, tool_name)
    /\ Continue(task_gen_cost)
    /\ retry_info' = NoRetryInfo
    /\ UNCHANGED <<agentVars, valVars, sigVars, call, mode, initial_result, tool_name, tool_code,
                   retry_result, task_gen_cost, meta, genCalls, firstRun, unproven, proven,
                   allow_verifier_feedback, gen_feedback, gen_retry_info,
                   run_tools,
                   startDisk, valCalls>>

\* tool_library.remove_tool(tool_name) after a failed retry, then the next
\* iteration of the generation loop.
Evict ==
    /\ mode \in Modes
    /\ pc = "evict"
    /\ disk' = remove_tool(disk, tool_name)
    /\ Continue(task_gen_cost)
    /\ UNCHANGED <<agentVars, valVars, sigVars, call, mode, initial_result, tool_name, tool_code, retry_info,
                   retry_result, task_gen_cost, meta, genCalls, firstRun, unproven, proven,
                   allow_verifier_feedback, gen_feedback, gen_retry_info,
                   run_tools,
                   startDisk, valCalls>>

Next ==
    \/ InitialRun
    \/ GenerateError
    \/ GenerateCode
    \/ WriteSource
    \/ Register
    \/ RetryRun
    \/ Evict

Spec == Init /\ [][Next]_vars

\* ------------------------------------------- direct calls of the library API
Called(op, name, file) == call' = [op |-> op, name |-> name, file |-> file, pre |-> disk]

ApiWriteFile ==
    /\ mode = "api"
    /\ \E p \in Paths, code \in Codes :
         /\ disk' = [disk EXCEPT !.files[p] = code]
         /\ Called("write_text", NoName, p)
    /\ UNCHANGED <<mode, pipeVars, agentVars, valVars, sigVars>>

ApiRegister ==
    /\ mode = "api"
    /\ Len(disk.tools) < MaxRegistry
    /\ \E n \in Names, p \in Paths, verified \in BOOLEAN :
         /\ disk' = register_tool(disk, n, p, TaskList[1], SOTA, verified,
                                  IF verified THEN CHEAP ELSE "")
         /\ Called("register_tool", n, p)
    /\ UNCHANGED <<mode, pipeVars, agentVars, valVars, sigVars>>

ApiMarkVerified ==
    /\ mode = "api"
    /\ \E n \in Names :
         /\ disk' = mark_verified(disk, n, CHEAP)
         /\ Called("mark_verified", n, NoPath)
    /\ UNCHANGED <<mode, pipeVars, agentVars, valVars, sigVars>>

ApiRemove ==
    /\ mode = "api"
    /\ \E n \in Names :
         /\ disk' = remove_tool(disk, n)
         /\ Called("remove_tool", n, NoPath)
    /\ UNCHANGED <<mode, pipeVars, agentVars, valVars, sigVars>>

NextLib ==
    \/ ApiWriteFile
    \/ ApiRegister
    \/ ApiMarkVerified
    \/ ApiRemove

SpecLib == InitLib /\ [][NextLib]_vars

\* --------------------------------------------------- Agent.run and run_task
\* the for loop of Agent.run is over: range(self.max_iterations) is used up
LoopDone(i) == i >= max_iterations

\* recording_dispatch appends one record once dispatch_fn has returned
Record(traj, tc, result) ==
    Append(traj, ToolCallRecord(tc.name, tc.args, result))

Usage(resp) == [input_tokens |-> resp.input_tokens, output_tokens |-> resp.output_tokens]

\* the part of a step of Agent.run that the harness and the drivers see
RunStays == UNCHANGED <<harness_result, extra_tools, rt_pc, workspace>>
DriverStays == UNCHANGED <<disk, call, mode, pipeVars, valVars, sigVars>>

SetupRaises_leaves_workspace ==
    /\ rt_pc = "running"
    /\ ag_pc = "chat"
    /\ chatCalls = 0
    /\ ag_pc' = "skipped"
    /\ exception' = "SetupError"
    /\ rt_pc' = "raised"
    /\ UNCHANGED <<iteration, messages, total_input, total_output, response, pending,
                   trajectory, agent_result, harness_result, extra_tools, chatCalls,
                   usage_log, workspace>>
    /\ DriverStays

\* task.setup(workspace) raises: the finally clause removes the workspace
\* and the exception leaves run_task
SetupRaises ==
    /\ rt_pc = "running"
    /\ ag_pc = "chat"
    /\ chatCalls = 0
    /\ ag_pc' = "skipped"
    /\ exception' = "SetupError"
    /\ rt_pc' = "raised"
    /\ workspace' = "removed"
    /\ UNCHANGED <<iteration, messages, total_input, total_output, response, pending,
                   trajectory, agent_result, harness_result, extra_tools, chatCalls,
                   usage_log>>
    /\ DriverStays

\* client.chat raises: nothing catches it inside Agent.run
ChatRaises ==
    /\ ag_pc = "chat"
    /\ chatCalls' = chatCalls + 1
    /\ ag_pc' = "raised"
    /\ exception' = "APIError"
    /\ UNCHANGED <<iteration, messages, total_input, total_output, response, pending,
                   trajectory, agent_result, usage_log>>
    /\ RunStays
    /\ DriverStays

\* client.chat answers without invocation requests: Agent.run returns
ChatFinal ==
    /\ ag_pc = "chat"
    /\ \E content \in Contents, usage \in Usages :
         LET resp == AgentResponse(content, <<>>, usage) IN
         /\ response' = resp
         /\ messages' = Append(messages, raw_message(resp))
         /\ total_input' = total_input + resp.input_tokens
         /\ total_output' = total_output + resp.output_tokens
         /\ usage_log' = Append(usage_log, Usage(resp))
         /\ agent_result' = AgentResult(FinalContent(resp.content),
                                        total_input + resp.input_tokens,
                                        total_output + resp.output_tokens)
    /\ chatCalls' = chatCalls + 1
    /\ ag_pc' = "returned"
    /\ UNCHANGED <<iteration, pending, trajectory, exception>>
    /\ RunStays
    /\ DriverStays

ChatTools_forgets_earlier_turns ==
    /\ ag_pc = "chat"
    /\ \E l \in RequestLists :
         LET tcs == [k \in 1..Len(l) |->
                        ToolCall(<<iteration + 1, k>>, l[k].name, l[k].args)]
             resp == AgentResponse(None, tcs, ToolTurnUsage) IN
         /\ response' = resp
         /\ messages' = Append(messages, raw_message(resp))
         /\ total_input' = resp.input_tokens
         /\ total_output' = resp.output_tokens
         /\ usage_log' = Append(usage_log, Usage(resp))
         /\ pending' = tcs
    /\ chatCalls' = chatCalls + 1
    /\ ag_pc' = "dispatch"
    /\ UNCHANGED <<iteration, trajectory, agent_result, exception>>
    /\ RunStays
    /\ DriverStays

\* client.chat answers with invocation requests
ChatTools ==
    /\ ag_pc = "chat"
    /\ \E l \in RequestLists :
         LET tcs == [k \in 1..Len(l) |->
                        ToolCall(<<iteration + 1, k>>, l[k].name, l[k].args)]
             resp == AgentResponse(None, tcs, ToolTurnUsage) IN
         /\ response' = resp
         /\ messages' = Append(messages, raw_message(resp))
         /\ total_input' = total_input + resp.input_tokens
         /\ total_output' = total_output + resp.output_tokens
         /\ usage_log' = Append(usage_log, Usage(resp))
         /\ pending' = tcs
    /\ chatCalls' = chatCalls + 1
    /\ ag_pc' = "dispatch"
    /\ UNCHANGED <<iteration, trajectory, agent_result, exception>>
    /\ RunStays
    /\ DriverStays

DispatchOne_trims_history(tc, rest) ==
    LET out == dispatch_fn(extra_tools, tc.name, tc.args) IN
    IF out.raised
    THEN /\ ag_pc' = "raised"
         /\ exception' = out.result
         /\ UNCHANGED <<iteration, messages, pending, trajectory, agent_result>>
    ELSE /\ trajectory' = Record(trajectory, tc, out.result)
         /\ messages' = Append(IF Len(messages) > 4 THEN SubSeq(messages, 1, 2) ELSE messages,
                               Message("tool", out.result, <<>>, tc.id))
         /\ pending' = rest
         /\ UNCHANGED exception
         /\ IF rest # <<>>
            THEN /\ ag_pc' = "dispatch"
                 /\ UNCHANGED <<iteration, agent_result>>
            ELSE /\ iteration' = iteration + 1
                 /\ IF LoopDone(iteration + 1)
                    THEN /\ ag_pc' = "returned"
                         /\ agent_result' = AgentResult(INCOMPLETE, total_input, total_output)
                    ELSE /\ ag_pc' = "chat"
                         /\ UNCHANGED agent_result

\* what one pass of the loop over response.tool_calls does with request tc
DispatchOne(tc, rest) ==
    LET out == dispatch_fn(extra_tools, tc.name, tc.args) IN
    IF out.raised
    THEN /\ ag_pc' = "raised"
         /\ exception' = out.result
         /\ UNCHANGED <<iteration, messages, pending, trajectory, agent_result>>
    ELSE /\ trajectory' = Record(trajectory, tc, out.result)
         /\ messages' = Append(messages, Message("tool", out.result, <<>>, tc.id))
         /\ pending' = rest
         /\ UNCHANGED exception
         /\ IF rest # <<>>
            THEN /\ ag_pc' = "dispatch"
                 /\ UNCHANGED <<iteration, agent_result>>
            ELSE /\ iteration' = iteration + 1
                 /\ IF LoopDone(iteration + 1)
                    THEN /\ ag_pc' = "returned"
                         /\ agent_result' = AgentResult(INCOMPLETE, total_input, total_output)
                    ELSE /\ ag_pc' = "chat"
                         /\ UNCHANGED agent_result

Dispatch_last_request_first ==
    /\ ag_pc = "dispatch"
    /\ DispatchOne(pending[Len(pending)], SubSeq(pending, 1, Len(pending) - 1))
    /\ UNCHANGED <<total_input, total_output, response, chatCalls, usage_log>>
    /\ RunStays
    /\ DriverStays

\* one pass of the loop over response.tool_calls; after the last request of
\* the last iteration Agent.run returns the sentinel
Dispatch ==
    /\ ag_pc = "dispatch"
    /\ DispatchOne(Head(pending), Tail(pending))
    /\ UNCHANGED <<total_input, total_output, response, chatCalls, usage_log>>
    /\ RunStays
    /\ DriverStays

\* how task.verify ends: a test command by its behaviour, or an exception
VerifyOutcomes == {"ok", "exit1", "timeout", "raises"}

AgentVarsStay ==
    UNCHANGED <<ag_pc, iteration, messages, total_input, total_output, response,
                pending, trajectory, agent_result, extra_tools, chatCalls, usage_log>>

Finish_drops_trajectory_on_error ==
    /\ rt_pc = "running"
    /\ ag_pc \in {"returned", "raised"}
    /\ \E v \in VerifyOutcomes :
         IF v = "raises"
         THEN /\ rt_pc' = "raised"
              /\ exception' = "VerifyError"
              /\ UNCHANGED harness_result
         ELSE LET verify_result == TestsPasses_check(HostCommandRunner_run(v)) IN
              /\ rt_pc' = "returned"
              /\ UNCHANGED exception
              /\ harness_result' =
                   IF ag_pc = "returned"
                   THEN [done |-> TRUE, passed |-> verify_result.passed,
                         verify_message |-> verify_result.message,
                         final_response |-> agent_result.content,
                         input_tokens |-> agent_result.input_tokens,
                         output_tokens |-> agent_result.output_tokens,
                         error |-> None, trajectory |-> trajectory]
                   ELSE [done |-> TRUE, passed |-> verify_result.passed,
                         verify_message |-> verify_result.message,
                         final_response |-> "",
                         input_tokens |-> 0, output_tokens |-> 0,
                         error |-> exception, trajectory |-> <<>>]
    /\ workspace' = "removed"
    /\ AgentVarsStay
    /\ DriverStays

\* run_task after agent.run: the except branch, task.verify, the TaskResult,
\* and the finally clause
Finish ==
    /\ rt_pc = "running"
    /\ ag_pc \in {"returned", "raised"}
    /\ \E v \in VerifyOutcomes :
         IF v = "raises"
         THEN /\ rt_pc' = "raised"
              /\ exception' = "VerifyError"
              /\ UNCHANGED harness_result
         ELSE LET verify_result == TestsPasses_check(HostCommandRunner_run(v)) IN
              /\ rt_pc' = "returned"
              /\ UNCHANGED exception
              /\ harness_result' =
                   IF ag_pc = "returned"
                   THEN [done |-> TRUE, passed |-> verify_result.passed,
                         verify_message |-> verify_result.message,
                         final_response |-> agent_result.content,
                         input_tokens |-> agent_result.input_tokens,
                         output_tokens |-> agent_result.output_tokens,
                         error |-> None, trajectory |-> trajectory]
                   ELSE [done |-> TRUE, passed |-> verify_result.passed,
                         verify_message |-> verify_result.message,
                         final_response |-> "",
                         input_tokens |-> 0, output_tokens |-> 0,
                         error |-> exception, trajectory |-> trajectory]
    /\ workspace' = "removed"
    /\ AgentVarsStay
    /\ DriverStays

\* the driver takes the result of the initial run: already passing, or on
\* to the first generation attempt with this result
Proceed ==
    /\ rt_pc = "returned"
    /\ pc = "initial"
    /\ rt_pc' = "handed"
    /\ LET res == TaskResult(Task, harness_result.passed, harness_result.verify_message,
                             harness_result.trajectory, harness_result.error) IN
       /\ initial_result' = res
       /\ IF res.passed
          THEN /\ results' = Append(results, Report("already_passing", res, 0, NoName))
               /\ NextTask
               /\ attempt' = 0
          ELSE /\ pc' = "generate"
               /\ attempt' = 1
               /\ UNCHANGED <<taskIdx, results>>
    /\ UNCHANGED <<tool_name, tool_code, retry_info, retry_result, task_gen_cost, meta,
                   genCalls, firstRun, unproven, proven, allow_verifier_feedback,
                   gen_feedback, gen_retry_info,
                   run_tools, startDisk, valCalls>>
    /\ UNCHANGED <<disk, call, mode, valVars, sigVars>>
    /\ UNCHANGED <<harness_result, exception, workspace>>
    /\ AgentVarsStay

NextAgent ==
    \/ SetupRaises
    \/ ChatRaises
    \/ ChatFinal
    \/ ChatTools
    \/ Dispatch
    \/ Finish
    \/ Proceed

InitAgent ==
    /\ mode = "run_task" /\ allow_verifier_feedback = FALSE /\ InitCommon
    /\ InitRun /\ extra_tools \in ExtraTools
    /\ InitNoValidation /\ InitNoSignals

SpecAgent == InitAgent /\ [][NextAgent]_vars

\* ------------------------------------- _validate_tool_code on any source text
InitValidate ==
    /\ mode = "validate" /\ allow_verifier_feedback = FALSE /\ InitCommon
    /\ InitRun /\ extra_tools = [given |-> FALSE, handlers |-> {}]
    /\ val_src \in Sources
    /\ val_out = NoOutcome
    /\ InitNoSignals

Validate ==
    /\ mode = "validate"
    /\ val_out = NoOutcome
    /\ val_out' = _validate_tool_code(val_src)
    /\ UNCHANGED <<val_src, sigVars, agentVars, disk, call, mode, pipeVars>>

NextValidate == Validate

SpecValidate == InitValidate /\ [][NextValidate]_vars

\* ------------------- _extract_agent_observable_signals on any trajectory
InitSignals ==
    /\ mode = "signals" /\ allow_verifier_feedback = FALSE /\ InitCommon
    /\ InitRun /\ extra_tools = [given |-> FALSE, handlers |-> {}]
    /\ InitNoValidation
    /\ sig_traj \in Trajectories
    /\ sig_out = NotExtracted

Extract ==
    /\ mode = "signals"
    /\ sig_out = NotExtracted
    /\ sig_out' = observable_signals(sig_traj, max_chars)
    /\ UNCHANGED <<sig_traj, valVars, agentVars, disk, call, mode, pipeVars>>

NextSignals == Extract

SpecSignals == InitSignals /\ [][NextSignals]_vars

\* ================================================================ properties
EntryIdx == 1..Len(disk.tools)
Registered(D, name) == \E i \in 1..Len(D.tools) : D.tools[i].name = name
LastReport == results[Len(results)]

\* The source an entry points at defines a descriptor named as the entry and
\* a callable of that name.
Validated(entry) ==
    /\ disk.files[entry.file].kind = "ok"
    /\ disk.files[entry.file].name = entry.name

\* C1: whenever a task's pipeline has ended or is between two attempts, the
\* registry holds no entry registered during that pipeline whose retry run
\* did not pass: a failed retry is always followed by the eviction.
C1_FailedRetryEvicted ==
    pc \in {"initial", "done", "generate"} =>
        \A i \in EntryIdx : disk.tools[i].name \notin unproven

C1_Witness ==
    /\ pc = "done"
    /\ LastReport.status = "generation_failed"
    /\ unproven # {}
    /\ Len(disk.tools) = 1

\* C2 (as claimed): in every state during a pipeline execution, an entry has
\* verified = true only if its source passed validation and a retry run
\* using it has passed.
C2_VerifiedOnlyAfterPassingRetry ==
    \A i \in EntryIdx :
        disk.tools[i].verified =>
            Validated(disk.tools[i]) /\ disk.tools[i].name \in proven

\* C2 (amended): an entry has verified = true only if its source passed
\* validation and either a retry run using it has passed or it is the entry
\* registered by the attempt in progress, whose retry run has not yet been
\* followed by its acceptance or eviction.
C2_VerifiedOnlyAfterRetryOrPending ==
    \A i \in EntryIdx :
        disk.tools[i].verified =>
            /\ Validated(disk.tools[i])
            /\ \/ disk.tools[i].name \in proven
               \/ pc \in {"retry", "evict"} /\ disk.tools[i].name = tool_name

C2_Witness ==
    /\ pc = "retry"
    /\ Len(disk.tools) = 2
    /\ proven # {}
    /\ tool_name \notin proven
    /\ \E i \in EntryIdx : disk.tools[i].name = tool_name /\ disk.tools[i].verified

C4_IndexAndArtifactsAgree ==
    /\ \A i \in EntryIdx : disk.files[disk.tools[i].file] # NoFile
    /\ \A n \in Names : disk.files[GenPath(n)] # NoFile => Registered(disk, n)

PriorEntries == {i \in 1..Len(call.pre.tools) : call.pre.tools[i].name = call.name}

\* C5 (as claimed): after register_tool on a name already present, exactly
\* one entry has the name, it points at the new source file, and the file
\* the prior entry pointed at no longer exists.
C5_RegisterReplacesEntryAndFile ==
    (call.op = "register_tool" /\ PriorEntries # {}) =>
        /\ Cardinality({i \in EntryIdx : disk.tools[i].name = call.name}) = 1
        /\ \A i \in EntryIdx : disk.tools[i].name = call.name => disk.tools[i].file = call.file
        /\ \A j \in PriorEntries : disk.files[call.pre.tools[j].file] = NoFile

\* C6: no two registry entries share a name, after any sequence of
\* register_tool, mark_verified and remove_tool from an empty registry.
C6_NamesUnique ==
    \A i, j \in EntryIdx : i # j => disk.tools[i].name # disk.tools[j].name

C6_Witness ==
    /\ call.op = "register_tool"
    /\ PriorEntries # {}
    /\ Len(disk.tools) = 2
    /\ \E i \in EntryIdx : disk.tools[i].name = call.name /\ disk.tools[i].file = call.file

VerifiedOnly(D) == [D EXCEPT !.tools = SelectSeq(@, LAMBDA t : t.verified)]
SchemaNames(L) == {L.schemas[k] : k \in 1..Len(L.schemas)}

\* C7: load_tools returns nothing for an entry whose verified flag is false:
\* its result is the result on the registry without the unverified entries,
\* and every descriptor and callable it returns was taken from the source of
\* a verified entry.
C7_UnverifiedNeverLoaded ==
    LET L == load_tools(disk) IN
    /\ L = load_tools(VerifiedOnly(disk))
    /\ \A n \in SchemaNames(L) :
         \E i \in EntryIdx : /\ disk.tools[i].verified
                             /\ disk.files[disk.tools[i].file].name = n
    /\ \A n \in DOMAIN L.handlers :
         \E i \in EntryIdx : /\ disk.tools[i].verified
                             /\ disk.tools[i].file = L.handlers[n]

C7_Witness ==
    LET L == load_tools(disk) IN
    /\ Len(L.schemas) = 1
    /\ \E i \in EntryIdx :
         /\ ~disk.tools[i].verified
         /\ disk.files[disk.tools[i].file].kind = "ok"
         /\ disk.files[disk.tools[i].file].name \notin SchemaNames(L)
         /\ disk.files[disk.tools[i].file].name \notin DOMAIN L.handlers

Without(D, i) ==
    [D EXCEPT !.tools = SubSeq(@, 1, i - 1) \o SubSeq(@, i + 1, Len(@))]

\* C8 (as claimed): a verified entry whose source file is missing or fails
\* while being materialized contributes nothing to the result of load_tools,
\* and every other verified entry whose source loads is still returned.
C8_LoadFailOpen ==
    LET L == load_tools(disk) IN
    \A i \in EntryIdx :
        disk.tools[i].verified =>
            IF disk.files[disk.tools[i].file].kind = "ok"
            THEN /\ disk.files[disk.tools[i].file].name \in SchemaNames(L)
                 /\ disk.files[disk.tools[i].file].name \in DOMAIN L.handlers
            ELSE L = load_tools(Without(disk, i))

\* C9 (as claimed): after remove_tool(name) on a registered name, no entry
\* has that name and the file the removed entry recorded no longer exists.
C9_RemoveDeletesEntryAndArtifact ==
    (call.op = "remove_tool" /\ PriorEntries # {}) =>
        /\ ~Registered(disk, call.name)
        /\ \A j \in PriorEntries : disk.files[call.pre.tools[j].file] = NoFile

\* C10: remove_tool is idempotent: from every library state and for every
\* name, a second remove_tool(name) leaves registry and files as the first
\* call left them.
C10_RemoveIdempotent ==
    \A n \in Names : remove_tool(remove_tool(disk, n), n) = remove_tool(disk, n)

C10_Witness ==
    /\ call.op = "remove_tool"
    /\ PriorEntries # {}
    /\ call.pre.files[GenPath(call.name)] # NoFile
    /\ Len(disk.tools) = 1
    /\ remove_tool(disk, call.name) = disk

\* C11 (as claimed): remove_tool on a name that is not registered leaves the
\* registry index, the existence of the index file and every source
\* artifact unchanged.
C11_RemoveAbsentIsNoop ==
    (call.op = "remove_tool" /\ PriorEntries = {}) => disk = call.pre

Finished == {"initial", "done"}          \* between two tasks, or after the batch
JustEnded == pc \in Finished /\ results # <<>>

\* C12: a task whose initial run passes is reported already_passing at once;
\* no generator or validator call was made for it and the registry and the
\* generated sources are what they were when its pipeline started.
C12_AlreadyPassingTouchesNothing ==
    \A i \in 1..Len(TaskList) :
        firstRun[TaskList[i]].passed =>
            /\ i <= Len(results)
            /\ results[i].task_id = TaskList[i]
            /\ results[i].status = "already_passing"
            /\ results[i].result = firstRun[TaskList[i]]
            /\ (pc \in Finished /\ i = Len(results)) =>
                   /\ disk = startDisk
                   /\ genCalls = 0
                   /\ valCalls = 0

C12_Witness ==
    /\ JustEnded
    /\ LastReport.status = "already_passing"
    /\ Len(results) = 2
    /\ Len(disk.tools) = 1
    /\ disk = startDisk

\* C13: when the validator rejects the source generated in attempt k, that
\* step registers nothing, writes no source, runs no retry, and the pipeline
\* is at attempt k+1 if k < max_attempts, else it ends generation_failed.
C13_RejectedAttemptLeavesNoTrace ==
    [][ (pc = "generate" /\ valCalls' = valCalls + 1
            /\ ~_validate_tool_code(SourceOf(tool_code')).raised
            /\ ~_validate_tool_code(SourceOf(tool_code')).valid) =>
          /\ disk' = disk
          /\ retry_result' = retry_result
          /\ run_tools' = run_tools
          /\ IF attempt < MaxAttempts
             THEN pc' = "generate" /\ attempt' = attempt + 1 /\ results' = results
             ELSE /\ pc' \in Finished
                  /\ Len(results') = Len(results) + 1
                  /\ results'[Len(results')].status = "generation_failed"
                  /\ results'[Len(results')].task_id = Task ]_vars

C13_Witness ==
    /\ JustEnded
    /\ LastReport.status = "generation_failed"
    /\ tool_code.kind = "nofunc"
    /\ valCalls = MaxAttempts
    /\ unproven = {}
    /\ disk = startDisk

EntriesOf(D) == {D.tools[i] : i \in 1..Len(D.tools)}

\* C14 (as claimed): after a pipeline that ended tool_generated the registry
\* holds exactly one entry it did not hold when the pipeline started, that
\* entry is verified and attributed to the task, and every entry present
\* before is still present and unchanged.
C14_ExactlyOneNewEntry ==
    (JustEnded /\ LastReport.status = "tool_generated") =>
        /\ Cardinality(EntriesOf(disk) \ EntriesOf(startDisk)) = 1
        /\ Len(disk.tools) = Len(startDisk.tools) + 1
        /\ \A e \in EntriesOf(disk) \ EntriesOf(startDisk) :
              e.verified /\ e.generated_from_task = LastReport.task_id
        /\ EntriesOf(startDisk) \subseteq EntriesOf(disk)

\* C15: the capability of an attempt is registered, verified, before its
\* retry run starts, a load_tools at that point returns its descriptor and
\* its callable, and the toolset the retry run was given contains it.
C15_RetryToolsetHasNewCapability ==
    /\ pc = "retry" =>
          /\ \E i \in EntryIdx : disk.tools[i].name = tool_name /\ disk.tools[i].verified
          /\ tool_name \in SchemaNames(load_tools(disk))
          /\ tool_name \in DOMAIN load_tools(disk).handlers
          /\ load_tools(disk).handlers[tool_name] = GenPath(tool_name)
    /\ pc = "evict" =>
          /\ run_tools.run = "retry"
          /\ tool_name \in SchemaNames(run_tools)
          /\ tool_name \in DOMAIN run_tools.handlers
    /\ (JustEnded /\ LastReport.status = "tool_generated") =>
          /\ run_tools.run = "retry"
          /\ LastReport.tool_name \in SchemaNames(run_tools)
          /\ LastReport.tool_name \in DOMAIN run_tools.handlers

C15_Witness ==
    /\ pc = "evict"
    /\ run_tools.run = "retry"
    /\ DOMAIN run_tools.handlers = Names
    /\ tool_name \in DOMAIN run_tools.handlers

\* C16 (as claimed): the initial run of every task, in both drivers, is given
\* every capability that is registered and verified when the run starts.
C16_InitialRunGetsLibrary ==
    run_tools.run = "initial" =>
        \A e \in EntriesOf(startDisk) : e.verified => e.name \in DOMAIN run_tools.handlers

\* C17: with allow_verifier_feedback false, the failure summary and the
\* retry context handed to generate_tool are what they would be for a result
\* with any other verification message.
C17_FeedbackIndependentOfVerifyMessage ==
    ~allow_verifier_feedback =>
        \A m \in Msgs :
            /\ genCalls > 0 =>
                 gen_feedback = _generation_feedback(
                     [initial_result EXCEPT !.verify_message = m], allow_verifier_feedback)
            /\ (pc \in {"generate", "write", "register", "retry", "evict"}
                    /\ retry_info # NoRetryInfo) =>
                 retry_info.verify_message = _generation_feedback(
                     [retry_result EXCEPT !.verify_message = m], allow_verifier_feedback)

C17_Witness ==
    /\ ~allow_verifier_feedback
    /\ pc = "write"
    /\ attempt = 2
    /\ genCalls = 2
    /\ retry_info # NoRetryInfo
    /\ initial_result.verify_message # retry_result.verify_message

FirstResponseFinal ==
    ag_pc = "returned" /\ chatCalls = 1 /\ response.tool_calls = <<>>

\* C18 (as claimed): when the first response carries no invocation request,
\* Agent.run returns that response's content whatever it is (text, empty or
\* absent), the trajectory is empty and the returned token counts are that
\* response's usage.
C18_ReturnsFirstContent ==
    FirstResponseFinal =>
        /\ agent_result.content = response.content
        /\ trajectory = <<>>
        /\ agent_result.input_tokens = response.input_tokens
        /\ agent_result.output_tokens = response.output_tokens

\* C18 (amended): when the first response carries no invocation request,
\* Agent.run returns that response's content if it is a non-empty text and
\* the placeholder "(no response)" if it is empty or absent; the trajectory
\* is empty and the returned token counts are that response's usage.
C18_ReturnsFirstContentOrPlaceholder ==
    FirstResponseFinal =>
        /\ response.content \notin {None, ""} => agent_result.content = response.content
        /\ response.content \in {None, ""} => agent_result.content = "(no response)"
        /\ trajectory = <<>>
        /\ Len(messages) = 3
        /\ agent_result.input_tokens = response.input_tokens
        /\ agent_result.output_tokens = response.output_tokens

C18_Witness ==
    /\ FirstResponseFinal
    /\ response.content = ""
    /\ agent_result.content = "(no response)"
    /\ agent_result.input_tokens = 2
    /\ agent_result.output_tokens = 3

\* every response so far carried invocation requests and max_iterations
\* responses have been received
AllTurnsRequested ==
    Len(usage_log) = max_iterations /\ response.tool_calls # <<>>

\* C19 (as claimed): Agent.run calls the inference client at most
\* max_iterations times, and when every one of the max_iterations responses
\* carries invocation requests the run does not raise: it returns the
\* "incomplete" sentinel.
C19_MaxTurnsThenSentinel ==
    /\ chatCalls <= max_iterations
    /\ AllTurnsRequested =>
          /\ ag_pc # "raised"
          /\ ag_pc = "returned" =>
                agent_result.content = "Reached maximum iterations without completing the task."

RECURSIVE TotalRequests(_)
TotalRequests(msgs) ==
    IF msgs = <<>> THEN 0
    ELSE Len(Head(msgs).tool_calls) + TotalRequests(Tail(msgs))

\* C20 (as claimed): when a run has used all max_iterations turns and every
\* response carried invocation requests, the trajectory has one entry per
\* request made over all turns, requests whose resolver call failed included.
C20_OneEntryPerRequest ==
    (AllTurnsRequested /\ ag_pc \in {"returned", "raised"}) =>
        Len(trajectory) = TotalRequests(messages)

AssistantIdx == {i \in 1..Len(messages) : messages[i].role = "assistant"}
ToolIdx == {i \in 1..Len(messages) : messages[i].role = "tool"}
LastAssistant == CHOOSE i \in AssistantIdx : \A j \in AssistantIdx : j <= i

\* the requests of the turn at message i that have been dispatched
Answered(i) ==
    IF i = LastAssistant THEN Len(messages[i].tool_calls) - Len(pending)
    ELSE Len(messages[i].tool_calls)

\* C21: the requests of a turn are dispatched one at a time in the order
\* received: the results follow the turn's assistant message in request
\* order, each with its request's id, the undispatched requests are the rest
\* of the turn in order, and whenever the inference client is about to be
\* called again every request of every turn has exactly one result message.
C21_OneResultPerRequestInOrder ==
    /\ \A i \in AssistantIdx :
          LET tcs == messages[i].tool_calls
              n == Answered(i) IN
          /\ n >= 0
          /\ \A k \in 1..n :
                /\ i + k <= Len(messages)
                /\ messages[i + k].role = "tool"
                /\ messages[i + k].tool_call_id = tcs[k].id
          /\ i + n + 1 <= Len(messages) => messages[i + n + 1].role # "tool"
          /\ i = LastAssistant => pending = SubSeq(tcs, n + 1, Len(tcs))
    /\ Len(trajectory) = Cardinality(ToolIdx)
    /\ ag_pc = "chat" => pending = <<>>

C21_Witness ==
    /\ ag_pc = "chat"
    /\ chatCalls = 1
    /\ Len(messages) = 5
    /\ messages[4].tool_call_id = <<1, 1>>
    /\ messages[5].tool_call_id = <<1, 2>>
    /\ messages[4].content # messages[5].content

\* C22 (as claimed): the resolver handed to Agent.run never raises; a
\* failure to call a capability with the given arguments comes back as a
\* textual error result.
C22_ResolverNeverRaises ==
    ~(ag_pc = "raised" /\ exception = "TypeError")

Known == BuiltinNames \cup (IF extra_tools.given THEN extra_tools.handlers ELSE {})

\* C23: dispatching a name that is neither a built-in nor a loaded library
\* capability does not raise: 'Unknown tool: <name>' is appended to the
\* conversation as that request's result and the loop goes on.
C23_UnknownToolIsAnswered ==
    [][ (ag_pc = "dispatch" /\ Head(pending).name \notin Known) =>
          /\ messages' = Append(messages,
                Message("tool", "Unknown tool: " \o Head(pending).name, <<>>,
                        Head(pending).id))
          /\ pending' = Tail(pending)
          /\ exception' = exception
          /\ ag_pc' \in {"dispatch", "chat", "returned"}
          /\ (ag_pc' = "returned") = (Tail(pending) = <<>> /\ iteration + 1 = max_iterations)
      ]_vars

C23_Witness ==
    /\ ag_pc = "chat"
    /\ ~extra_tools.given
    /\ messages[Len(messages)].role = "tool"
    /\ messages[Len(messages)].content = "Unknown tool: a"

RECURSIVE SumInput(_)
SumInput(log) == IF log = <<>> THEN 0 ELSE Head(log).input_tokens + SumInput(Tail(log))

RECURSIVE SumOutput(_)
SumOutput(log) == IF log = <<>> THEN 0 ELSE Head(log).output_tokens + SumOutput(Tail(log))

\* C24: the token totals Agent.run returns are the sums of the usage of
\* every response received in the run, when it ends with a content-only
\* response and when it ends incomplete.
C24_TotalsAreSumsOfUsage ==
    /\ ag_pc = "returned" =>
          /\ Len(usage_log) = chatCalls
          /\ agent_result.input_tokens = SumInput(usage_log)
          /\ agent_result.output_tokens = SumOutput(usage_log)
    /\ total_input = SumInput(usage_log)
    /\ total_output = SumOutput(usage_log)

C24_Witness ==
    /\ ag_pc = "returned"
    /\ agent_result.content = INCOMPLETE
    /\ chatCalls = max_iterations
    /\ agent_result.input_tokens = max_iterations * ToolTurnUsage.input_tokens
    /\ agent_result.output_tokens = max_iterations * ToolTurnUsage.output_tokens

\* C25: when the inference client raises during a turn the run's result
\* records the error; run_task still verifies and returns a result that
\* keeps the trajectory entries recorded before the exception; on a failed
\* verification the driver goes on to generation with that trajectory.
C25_ClientErrorDoesNotAbort ==
    /\ exception = "APIError" => (ag_pc = "raised" /\ pending = <<>>)
    /\ (ag_pc = "raised" /\ pending = <<>> /\ rt_pc \in {"returned", "handed"}) =>
          /\ harness_result.done
          /\ harness_result.error = "APIError"
          /\ harness_result.verify_message # ""
          /\ harness_result.trajectory = trajectory
          /\ Len(harness_result.trajectory) = Cardinality(ToolIdx)
    /\ (ag_pc = "raised" /\ pending = <<>> /\ rt_pc = "handed"
            /\ ~harness_result.passed) =>
          /\ pc = "generate"
          /\ attempt = 1
          /\ initial_result.error = "APIError"
          /\ initial_result.trajectory = trajectory

C25_Witness ==
    /\ rt_pc = "handed"
    /\ harness_result.error = "APIError"
    /\ Len(harness_result.trajectory) = 2
    /\ chatCalls = 2
    /\ pc = "generate"

\* C28: a task run has its workspace directory while it runs, and the
\* directory is removed when run_task has returned or raised, whether the
\* agent succeeded or raised, setup raised, verification failed or raised.
C28_WorkspaceRemovedOnEveryExit ==
    /\ rt_pc = "running" => workspace = "created"
    /\ rt_pc # "running" => workspace = "removed"
    /\ exception \in {"SetupError", "VerifyError"} => rt_pc = "raised"

C28_Witness ==
    /\ rt_pc = "raised"
    /\ exception = "VerifyError"
    /\ ag_pc = "raised"
    /\ workspace = "removed"

TimeoutRequest(tc) == tc.name = "run_shell" /\ tc.args = "timeout"

\* C30: a command that exceeds its timeout is a recoverable failure. In
\* run_shell it gives a textual error result that is appended to the
\* conversation and the loop goes on; in a task's verification it gives a
\* failed verification, after which the driver goes on to generation.
C30_TimeoutIsRecoverable ==
    /\ [](harness_result.verify_message = "Test command timed out" =>
            /\ ~harness_result.passed
            /\ rt_pc \in {"returned", "handed"}
            /\ rt_pc = "handed" => pc = "generate")
    /\ [][ (ag_pc = "dispatch" /\ TimeoutRequest(Head(pending))) =>
             /\ messages' = Append(messages,
                   Message("tool", "Error: command timed out after 30 seconds", <<>>,
                           Head(pending).id))
             /\ Len(trajectory') = Len(trajectory) + 1
             /\ ag_pc' \in {"dispatch", "chat", "returned"} ]_vars

C30_Witness ==
    /\ rt_pc = "handed"
    /\ harness_result.verify_message = "Test command timed out"
    /\ pc = "generate"
    /\ Len(trajectory) = 1
    /\ trajectory[1].result = "Error: command timed out after 30 seconds"

\* C26 (as claimed): no exception leaves _validate_tool_code, whatever the
\* source text does when executed and whatever its descriptor is.
C26_ValidatorNeverRaises ==
    ~val_out.raised

\* executing the source defines a SCHEMA exposing a non-empty name and a
\* callable bound to that name
WellFormed(src) ==
    /\ src.exec = "fine"
    /\ src.schema = "dict"
    /\ src.function = "dict"
    /\ src.fname \notin {Absent, ""}
    /\ src.binding = "callable"

\* C27 (as claimed): _validate_tool_code returns (True, name) exactly for
\* the sources that define a SCHEMA exposing a non-empty name and a callable
\* bound to that name, and (False, reason) for every other source.
C27_ValidIffDescriptorAndCallable ==
    val_out # NoOutcome =>
        IF WellFormed(val_src)
        THEN val_out = Valid(val_src.fname)
        ELSE ~val_out.raised /\ ~val_out.valid

ReuseOf(n, y) ==
    {i \in 1..Len(meta.cross_task_reuse) :
        meta.cross_task_reuse[i].tool_name = n /\ meta.cross_task_reuse[i].task_id = y}

UsedNames == {run_tools.used[k] : k \in 1..Len(run_tools.used)}

\* C29 (as claimed): when a task Y of a self-improving batch passes its
\* initial run, every capability invoked in that run that was generated for
\* another task X has exactly one cross-task-reuse entry for Y, with source
\* task X and passed = true, however often it was invoked; a capability
\* generated for Y itself has none.
C29_OneReuseEntryPerCapability ==
    (mode = "self_improving" /\ JustEnded /\ LastReport.status = "already_passing") =>
        \A n \in Names :
            LET y == LastReport.task_id
                x == meta.tool_sources[n] IN
            IF n \in UsedNames /\ x # NoName /\ x # y
            THEN /\ Cardinality(ReuseOf(n, y)) = 1
                 /\ \A i \in ReuseOf(n, y) :
                       /\ meta.cross_task_reuse[i].source_task = x
                       /\ meta.cross_task_reuse[i].passed
            ELSE ReuseOf(n, y) = {}

IsPrefix(s, t) == Len(s) <= Len(t) /\ SubSeq(t, 1, Len(s)) = s

\* C31: the conversation of one Agent.run starts with the system directive
\* and the task prompt as first user message, and is append-only: every step
\* leaves the earlier messages in place, and every answered call of the
\* client adds at least the answer, so the sequence sent at one turn is a
\* strict prefix of the sequence sent at the next.
C31_ConversationAppendOnly ==
    /\ [](/\ Len(messages) >= 2
          /\ messages[1] = Message("system", SYSTEM_PROMPT, <<>>, NoId)
          /\ messages[2] = Message("user", TaskPrompt, <<>>, NoId))
    /\ [][/\ IsPrefix(messages, messages')
          /\ usage_log' # usage_log => Len(messages') > Len(messages)]_vars

C31_Witness ==
    /\ Len(usage_log) = 2
    /\ Len(messages) >= 5
    /\ messages[3].role = "assistant"
    /\ messages[4].role = "tool"
    /\ messages[Len(messages)].role = "assistant"

Statuses == {"already_passing", "tool_generated", "generation_failed"}

\* the step is a retry run that passed
RetryPasses == pc = "retry" /\ retry_result'.passed

\* the step reports the current task as tool_generated
ReportsGenerated ==
    /\ Len(results') = Len(results) + 1
    /\ results'[Len(results')].status = "tool_generated"

ExpectedRetryInfo ==
    IF retry_result.task_id = Task
    THEN [tool_name |-> tool_name,
          verify_message |-> _generation_feedback(retry_result, allow_verifier_feedback)]
    ELSE NoRetryInfo

\* C33: the retry context handed to generate_tool is the drivers' retry_info
\* as it stands when the attempt starts: empty at a task's first attempt
\* (nothing is carried over from the previous task), the capability name and
\* the feedback of the failed retry run when the previous attempt ended in
\* one, and unchanged by an attempt that the validator rejected.
C33_RetryContextDescribesLastFailure ==
    /\ [](pc = "generate" =>
            /\ retry_info = ExpectedRetryInfo
            /\ attempt = 1 => retry_info = NoRetryInfo)
    /\ [][/\ genCalls' = genCalls + 1 => gen_retry_info' = retry_info
          /\ (pc = "retry" /\ pc' = "evict") =>
                retry_info' = [tool_name |-> tool_name,
                               verify_message |->
                                   _generation_feedback(retry_result', allow_verifier_feedback)]
          /\ pc = "evict" => retry_info' = retry_info
          /\ (pc = "generate" /\ pc' # "write") => retry_info' = retry_info]_vars

C33_Witness ==
    /\ taskIdx = 2
    /\ attempt = 2
    /\ genCalls = 2
    /\ gen_retry_info.tool_name = "a"
    /\ gen_retry_info.verify_message = _generation_feedback(retry_result, allow_verifier_feedback)
    /\ retry_result.task_id = "t2"
    /\ firstRun["t1"].passed = FALSE
    /\ results[1].status = "generation_failed"

\* the pieces of the summary copied from invocations
Copied == {k \in 1..Len(sig_out) : sig_out[k].idx # 0}
Quoted == {sig_out[k].idx : k \in Copied}
Signals ==
    {i \in 1..Len(sig_traj) :
        sig_traj[i].name = "run_shell" /\ sig_traj[i].result.marker}

\* C34: the summary is built only from run_shell invocations whose output
\* contains an error marker: what it quotes comes from at most the last four
\* of them, in trajectory order, never from another capability's result; it
\* is at most max_chars characters long; and it is the fixed "no failure
\* logs" message when no run_shell output contains a marker.
C34_SummaryOnlyFromShellErrors ==
    sig_out # NotExtracted =>
        /\ StrLen(sig_out) <= max_chars
        /\ Signals = {} <=> sig_out = NO_SIGNALS
        /\ Quoted \subseteq Signals
        /\ Cardinality(Quoted) <= 4
        /\ \A i \in Quoted : Cardinality({j \in Signals : j > i}) < 4
        /\ \A k, l \in Copied : k < l => sig_out[k].idx <= sig_out[l].idx
        /\ \A k \in Copied :
              /\ sig_traj[sig_out[k].idx].name = "run_shell"
              /\ sig_out[k].part = "output" =>
                    sig_out[k].len <= sig_traj[sig_out[k].idx].result.len

C34_Witness ==
    /\ sig_out # NotExtracted
    /\ Cardinality(Signals) = 5
    /\ Cardinality(Quoted) = 4
    /\ StrLen(sig_out) = max_chars

\* C35 (as claimed): after a task's pipeline ended without a working
\* capability, every registry entry that was present when the pipeline
\* started and originates from another task is still present, unchanged,
\* and its source file is what it was.
C35_OtherTasksEntriesSurvive ==
    (JustEnded /\ LastReport.status = "generation_failed") =>
        \A e \in EntriesOf(startDisk) :
            e.generated_from_task # LastReport.task_id =>
                /\ e \in EntriesOf(disk)
                /\ disk.files[e.file] = startDisk.files[e.file]

\* C36 (as claimed): the descriptors and the callables load_tools returns
\* describe the same capabilities: every descriptor's name is a key of the
\* callable map, every key has a descriptor, and no name has two descriptors.
C36_DescriptorsMatchCallables ==
    LET L == load_tools(disk) IN
    /\ SchemaNames(L) = DOMAIN L.handlers
    /\ \A k, l \in 1..Len(L.schemas) : k # l => L.schemas[k] # L.schemas[l]

\* C37 (as claimed): an invocation request named read_file, write_file or
\* run_shell is always resolved by the built-in handler: every recorded
\* result of such a request is what the built-in gives for its arguments.
C37_BuiltinsNeverShadowed ==
    \A i \in 1..Len(trajectory) :
        trajectory[i].name \in BuiltinNames =>
            trajectory[i].result = Builtin(trajectory[i].name, trajectory[i].args)

VerifiedIdx == {i \in EntryIdx : disk.tools[i].verified}
GeneratedFor == {t \in TaskIds : meta.tools_generated[t] # NoName}

\* C38 (as claimed): at the end of every task of a _run_self_improving
\* batch the verified names in the registry are the names recorded in
\* meta["tools_generated"], one distinct capability per recorded task, so
\* len(meta["tools_generated"]) is the number of verified registry entries.
C38_ToolsGeneratedMatchesRegistry ==
    (mode = "self_improving" /\ pc \in Finished) =>
        /\ {disk.tools[i].name : i \in VerifiedIdx}
              = {meta.tools_generated[t] : t \in GeneratedFor}
        /\ Cardinality(GeneratedFor) = Cardinality(VerifiedIdx)

\* the step is a generate_tool call that raised: no source came back, so
\* nothing was handed to the validator
GeneratorRaises ==
    pc = "generate" /\ genCalls' = genCalls + 1 /\ valCalls' = valCalls

\* C39 (as claimed): an exception of the generator call of attempt k leaves
\* the registry and the generated sources unchanged and does not abort: the
\* attempt counts against max_attempts, and the pipeline goes on with
\* attempt k+1 or ends the task with its failing initial result.
C39_GeneratorErrorDoesNotAbort ==
    [][GeneratorRaises =>
          /\ disk' = disk
          /\ pc' # "aborted"
          /\ IF attempt < MaxAttempts
             THEN pc' = "generate" /\ attempt' = attempt + 1 /\ results' = results
             ELSE /\ Len(results') = Len(results) + 1
                  /\ results'[Len(results')].status = "generation_failed"
                  /\ results'[Len(results')].result.passed = FALSE
                  /\ results'[Len(results')].result.verify_message
                        = initial_result.verify_message]_vars

\* C40 (as claimed): the token counts of the TaskResult of run_task are the
\* total usage of all inference calls answered during the run, also when
\* the run was ended by an exception after completed turns.
C40_ResultTokensAreTotalUsage ==
    harness_result.done =>
        /\ harness_result.input_tokens = SumInput(usage_log)
        /\ harness_result.output_tokens = SumOutput(usage_log)

====
